---- MODULE Spec2Model ----
(***************************************************************************)
(* yesod: a command runner driven by a small Lisp-like DSL.                *)
(*                                                                         *)
(* The model covers the registry (createYesod/register), run, the          *)
(* validator (validateStatements), the argument resolver                   *)
(* (resolveCommandArgs), the executor (executeStatements) and withDir.     *)
(* A run is an async function: each action below is one synchronous        *)
(* stretch of it, from one await to the next.                              *)
(***************************************************************************)
EXTENDS Integers, Sequences, FiniteSets, TLC

(***************************************************************************)
(* Bounds.                                                                 *)
(***************************************************************************)
\* The longest statement sequence a run is given.
MaxStmts == 3

(***************************************************************************)
(* JavaScript values.  A value is a record tagged with its typeof.         *)
(***************************************************************************)
Undefined == [type |-> "undefined"]

Str(s) == [type |-> "string", str |-> s]

\* A plain object without own properties, as an action may return.
EmptyObject == [type |-> "object", builtin |-> "none"]

\* Object.prototype itself, the value of the inherited accessor __proto__.
ObjectPrototype == [type |-> "object", builtin |-> "Object.prototype"]

\* The members every object literal inherits from Object.prototype.  All of
\* them are admitted by the grammar's Identifier and CommandName classes.
ObjectPrototypeKeys ==
    {"constructor", "__proto__", "hasOwnProperty", "isPrototypeOf",
     "propertyIsEnumerable", "toLocaleString", "toString", "valueOf"}

\* The inherited member named key: a built-in function.
BuiltinFunction(key) == [type |-> "function", builtin |-> key]

\* String(value), as resolveArgument applies it to a bound value.
String(v) ==
    CASE v.type = "string" -> v.str
      [] v.type = "undefined" -> "undefined"
      [] v.type = "object" -> "[object Object]"
      [] v.type = "function" ->
            IF v.builtin = "constructor"
            THEN "function Object() { [native code] }"
            ELSE "function " \o v.builtin \o "() { [native code] }"

\* The object literal {}: no own properties, prototype Object.prototype.
EmptyRecord == [own |-> <<>>, proto |-> ObjectPrototype]

\* obj[key]: an own property, else what the prototype chain gives.
Get(obj, key) ==
    IF key = "__proto__" THEN obj.proto
    ELSE IF key \in DOMAIN obj.own THEN obj.own[key]
    ELSE IF key \in ObjectPrototypeKeys THEN BuiltinFunction(key)
    ELSE Undefined

\* obj[key] = v.  The key __proto__ reaches the inherited setter, which
\* replaces the prototype when v is an object and does nothing otherwise.
Set(obj, key, v) ==
    IF key = "__proto__"
    THEN IF v.type = "object" THEN [obj EXCEPT !.proto = v] ELSE obj
    ELSE [obj EXCEPT !.own = (key :> v) @@ obj.own]

\* Object.keys(obj): the own enumerable property names.
Keys(obj) == DOMAIN obj.own

(***************************************************************************)
(* Statements, as the parser produces them.                                *)
(***************************************************************************)
\* An ArgumentValue that is a plain string.
Literal(s) == [type |-> "literal", value |-> s]

ReferencedVariable(n) == [type |-> "variable-ref", name |-> n]

\* namedArgs is the sequence of the object's entries, in insertion order.
Command(name, positionalArgs, namedArgs) ==
    [name |-> name, positionalArgs |-> positionalArgs, namedArgs |-> namedArgs]

VariableAssignment(variableName, command) ==
    [type |-> "assignment", variableName |-> variableName, command |-> command]

ExecutableCommand(command) ==
    [type |-> "command", variableName |-> "", command |-> command]

(***************************************************************************)
(* The inputs of the model.                                                *)
(***************************************************************************)
\* Names a statement may assign and names it may reference, as texts.
AssignVars == {<<"x">>, <<"_">>, <<"_", "_", "p", "r", "o", "t", "o", "_", "_">>}
RefVars == {<<"x">>, <<"c", "o", "n", "s", "t", "r", "u", "c", "t", "o", "r">>, <<"_", "_", "p", "r", "o", "t", "o", "_", "_">>}

\* Names of commands that statements without arguments invoke.
BareNames ==
    {<<"g", "e", "t">>, <<"n", "o", "p", "e">>,
     <<"c", "o", "n", "s", "t", "r", "u", "c", "t", "o", "r">>}

\* A command expression that lacks its closing parenthesis: (use
Unbalanced == <<"(", "u", "s", "e">>

\* The arguments run is called with, each the source of one statement:
\*   v:(get k)       an assignment
\*   (use val:$v)    a bare command with a variable reference
\*   (n)             a bare command without arguments
Sources ==
    {v \o <<":", "(", "g", "e", "t", " ", "k", ")">> : v \in AssignVars}
    \cup
    {<<"(", "u", "s", "e", " ", "v", "a", "l", ":", "$">> \o v \o <<")">> :
        v \in RefVars}
    \cup
    {<<"(">> \o n \o <<")">> : n \in BareNames}

\* The arguments that ask for help.
HelpFlags == {<<"-", "-", "h", "e", "l", "p">>, <<"-", "h">>}

SeqsUpTo(S, n) == UNION {[1..k -> S] : k \in 0..n}

\* What run is called with: up to MaxStmts statements, the unbalanced
\* expression alone or after a statement, or a request for help.
RunArgs ==
    SeqsUpTo(Sources, MaxStmts)
    \cup {<<Unbalanced>>} \cup {<<s, Unbalanced>> : s \in Sources}
    \cup {<<f>> : f \in HelpFlags}
    \cup {<<s, f>> : s \in Sources, f \in HelpFlags}

\* What a host registers: get declares returns, use does not.
Definition(returns) ==
    [type |-> "object", action |-> "callable", returns |-> returns]

Registrations ==
    {<<"get", Definition(Str("string"))>>, <<"use", Definition(Undefined)>>}

\* What an action may resolve with, and what it may reject with.
Values == {Str("42"), Undefined, EmptyObject}
ActionErrors == {[kind |-> "ActionError", message |-> "boom"]}

AllRuns == {"r1", "r2"}
SoloRuns == {"r1"}

(***************************************************************************)
(* State.                                                                  *)
(***************************************************************************)
VARIABLES
    commandMap,      \* the registry of createYesod
    cwd,             \* process.cwd()
    pc,              \* where each run stands
    statements,      \* the statements of each run
    idx,             \* the index of the statement a run is at
    workingDir,      \* options.workingDir of executeStatements
    originalDir,     \* withDir's originalDir
    globalContext,   \* the bindings of each run
    executionTimes,  \* the object of the durations, by command name
    thrown,          \* the error on its way out of executeCommand, if any
    outcome,         \* how the promise of run settled
    errors,          \* what validateStatements returned to run
    calls,           \* the invocations of command actions, in order
    settled,         \* how many of these invocations have settled
    returned,        \* assignment index -> what its action resolved with
    actionError,     \* what the action of a run rejected with, if one did
    parser,          \* parser.ts: the cached parser
    input,           \* the text each run has joined its arguments to
    argv,            \* the arguments each run was called with
    text,            \* a text given to tokenize directly
    tokenized,       \* what the latest such call of tokenize made of it
    givenContext,    \* a binding context given to resolveCommandArgs directly
    givenCommand,    \* the command given with it
    resolution       \* what the call made of them, and how it left them

\* What a run does not touch: the direct calls of the two pure functions.
direct == <<text, tokenized, givenContext, givenCommand, resolution>>

vars == <<commandMap, cwd, pc, statements, idx, workingDir, originalDir,
          globalContext, executionTimes, thrown, outcome, errors, calls,
          settled, returned, actionError, parser, input, argv, direct>>

NoError == [kind |-> "none"]
Pending == [status |-> "pending"]
NotCalled == [called |-> FALSE]

(***************************************************************************)
(* Errors.                                                                 *)
(***************************************************************************)
Threw(e) == [threw |-> TRUE, error |-> e]

Error(message) == [kind |-> "Error", message |-> message]

(***************************************************************************)
(* grammar.pegjs: the bundled grammar, as the generated parser matches it. *)
(* A text is a sequence of characters (strings of length one).  A rule     *)
(* applied at position i gives a match record: ok, the position pos after  *)
(* the match, the value val, and far, the furthest position at which an    *)
(* expected character was not found (the parser's maxFailPos, from which   *)
(* the location of a syntax error is computed).                            *)
(***************************************************************************)
Lower ==
    {"a", "b", "c", "d", "e", "f", "g", "h", "i", "j", "k", "l", "m",
     "n", "o", "p", "q", "r", "s", "t", "u", "v", "w", "x", "y", "z"}

Upper ==
    {"A", "B", "C", "D", "E", "F", "G", "H", "I", "J", "K", "L", "M",
     "N", "O", "P", "Q", "R", "S", "T", "U", "V", "W", "X", "Y", "Z"}

Digits == {"0", "1", "2", "3", "4", "5", "6", "7", "8", "9"}

\* [a-zA-Z0-9_-]
IdentifierChars == Lower \cup Upper \cup Digits \cup {"_", "-"}

\* The class of command names when it is the class of identifiers.
CommandNameCharsNoColon == IdentifierChars

\* [a-zA-Z0-9_:-]
CommandNameChars == IdentifierChars \cup {":"}

\* What ends an unquoted string: [^ \t\n\r:()$]
UnquotedDelimiters == {" ", "\t", "\n", "\r", ":", "(", ")", "$"}

\* [ \t\n\r]
WhitespaceChars == {" ", "\t", "\n", "\r"}

\* What ends a comment: [^\n\r]
LineEnds == {"\n", "\r"}

\* input.charAt(i - 1): the empty string past the end of the input.
At(t, i) == IF i \in 1..Len(t) THEN t[i] ELSE ""

Max2(a, b) == IF a >= b THEN a ELSE b

Failed(far) == [ok |-> FALSE, pos |-> 0, far |-> far, val |-> <<>>]

Matched(pos, far, val) == [ok |-> TRUE, pos |-> pos, far |-> far, val |-> val]

\* a / b: b is tried only when a fails.
OrElse(a, b) ==
    IF a.ok THEN a ELSE [b EXCEPT !.far = Max2(a.far, b.far)]

\* The element of a set of one: a value named once and used as often as
\* needed.
Only(S) == CHOOSE x \in S : TRUE

\* Where a run of characters that are (member) or are not (~member) in S,
\* starting at i, ends.
RECURSIVE SpanEnd(_, _, _, _)
SpanEnd(t, i, S, member) ==
    IF i <= Len(t) /\ (t[i] \in S) = member
    THEN SpanEnd(t, i + 1, S, member)
    ELSE i

\* chars.join(''), for the characters from i up to j.
RECURSIVE JoinChars(_, _, _)
JoinChars(t, i, j) == IF i >= j THEN "" ELSE t[i] \o JoinChars(t, i + 1, j)

\* chars:[...]+ { return chars.join(''); }
CharsPlus(t, i, S, member) ==
    LET j == SpanEnd(t, i, S, member) IN
    IF j = i THEN Failed(i) ELSE Matched(j, j, JoinChars(t, i, j))

parseIdentifier(t, i) == CharsPlus(t, i, IdentifierChars, TRUE)

parseCommandName(t, i) == CharsPlus(t, i, CommandNameChars, TRUE)

parseUnquotedString(t, i) == CharsPlus(t, i, UnquotedDelimiters, FALSE)

\* Comment = "//" [^\n\r]*, at a position where "//" stands: where it ends.
parseComment(t, i) == SpanEnd(t, i + 2, LineEnds, FALSE)

\* A rule _ that knows no comments.
WhitespaceEndNoComment(t, i) ==
    SpanEnd(t, i, WhitespaceChars, TRUE)

\* Where the rule _ stops: past whitespace, line continuations, comments.
RECURSIVE WhitespaceEnd(_, _)
WhitespaceEnd(t, i) ==
    IF At(t, i) \in WhitespaceChars THEN WhitespaceEnd(t, i + 1)
    ELSE IF At(t, i) = "\\" /\ At(t, i + 1) = "\n" THEN WhitespaceEnd(t, i + 2)
    ELSE IF At(t, i) = "/" /\ At(t, i + 1) = "/"
    THEN WhitespaceEnd(t, parseComment(t, i))
    ELSE i

\* _ = ([ \t\n\r] / "\\" "\n" / Comment)*  It always matches; a backslash
\* that no newline follows is a failure one character further.
parseWhitespace(t, i) ==
    LET p == WhitespaceEnd(t, i) IN
    Matched(p, IF At(t, p) = "\\" THEN p + 1 ELSE p, "")

\* An unescaping with a table of escapes: \n is a newline, \t a tab.
UnescapeTable(c) ==
    IF c = "n" THEN "\n" ELSE IF c = "t" THEN "\t" ELSE c

\* char[1]: an escaped character stands for itself.
Unescape(c) == c

\* ([^"\\] / "\\" .)* from position k, acc being what is joined so far.
RECURSIVE QuotedChars(_, _, _)
QuotedChars(t, k, acc) ==
    IF At(t, k) = "\\"
    THEN IF k + 1 <= Len(t)
         THEN QuotedChars(t, k + 2, acc \o Unescape(t[k + 1]))
         ELSE [pos |-> k, far |-> k + 1, val |-> acc]
    ELSE IF k <= Len(t) /\ t[k] # "\""
    THEN QuotedChars(t, k + 1, acc \o t[k])
    ELSE [pos |-> k, far |-> k, val |-> acc]

parseQuotedString(t, i) ==
    IF At(t, i) # "\"" THEN Failed(i)
    ELSE LET body == QuotedChars(t, i + 1, "") IN
         IF At(t, body.pos) = "\""
         THEN Matched(body.pos + 1, body.far, body.val)
         ELSE Failed(body.far)

\* Literal = QuotedString / UnquotedString
parseLiteral(t, i) ==
    Only({IF s.ok THEN [s EXCEPT !.val = Literal(s.val)] ELSE s :
          s \in {OrElse(parseQuotedString(t, i), parseUnquotedString(t, i))}})

\* VariableReference = "$" name:Identifier
parseVariableReference(t, i) ==
    IF At(t, i) # "$" THEN Failed(i)
    ELSE Only({IF name.ok
               THEN [name EXCEPT !.val = ReferencedVariable(name.val)]
               ELSE name :
               name \in {parseIdentifier(t, i + 1)}})

\* Value = VariableReference / Literal
parseValue(t, i) == OrElse(parseVariableReference(t, i), parseLiteral(t, i))

parsePositionalArgument(t, i) ==
    Only({IF value.ok
          THEN [value EXCEPT !.val =
                   [type |-> "positional", name |-> "", value |-> value.val]]
          ELSE value :
          value \in {parseValue(t, i)}})

\* The value of a named argument, after name and the colon.
NamedArgumentValue(t, name) ==
    Only({IF value.ok
          THEN [value EXCEPT !.val =
                   [type |-> "named", name |-> name.val, value |-> value.val]]
          ELSE value :
          value \in {parseValue(t, name.pos + 1)}})

\* NamedArgument = name:Identifier ":" value:Value
parseNamedArgument(t, i) ==
    Only({IF ~name.ok THEN name
          ELSE IF At(t, name.pos) # ":" THEN Failed(name.pos)
          ELSE NamedArgumentValue(t, name) :
          name \in {parseIdentifier(t, i)}})

\* A grammar file is the bundled one or one that differs from it in the
\* order of the alternatives of Argument.
BundledGrammar == [namedFirst |-> TRUE]
CustomGrammar == [namedFirst |-> FALSE]

\* Argument = NamedArgument / PositionalArgument
parseArgument(g, t, i) ==
    IF g.namedFirst
    THEN OrElse(parseNamedArgument(t, i), parsePositionalArgument(t, i))
    ELSE OrElse(parsePositionalArgument(t, i), parseNamedArgument(t, i))

\* (_ Argument)* from position i: args are the arguments matched so far.
RECURSIVE parseArguments(_, _, _, _, _)
parseArguments(g, t, i, args, far) ==
    Only({IF arg.ok
          THEN parseArguments(g, t, arg.pos, Append(args, arg.val),
                              Max2(far, arg.far))
          ELSE [pos |-> i, far |-> Max2(far, arg.far), val |-> args] :
          arg \in {Only({[a EXCEPT !.far = Max2(ws.far, a.far)] :
                         a \in {parseArgument(g, t, ws.pos)}}) :
                   ws \in {parseWhitespace(t, i)}}})

\* command.namedArgs[arg.name] = arg.value on the object literal {}, seen
\* through its entries: a new key is appended, a key already there keeps its
\* place and takes the new value, and the key __proto__ reaches the inherited
\* setter, which makes no own property.  (Keys that are canonical array
\* indices would be listed first; the model's texts have none.)
StoreNamedArg(entries, key, value) ==
    IF key = "__proto__" THEN entries
    ELSE IF \E k \in 1..Len(entries) : entries[k].key = key
    THEN [k \in 1..Len(entries) |->
             IF entries[k].key = key
             THEN [key |-> key, value |-> value] ELSE entries[k]]
    ELSE Append(entries, [key |-> key, value |-> value])

\* buildCommand(name, args), the arguments from the n-th on being added to
\* command.
RECURSIVE buildCommandFrom(_, _, _)
buildCommandFrom(command, args, n) ==
    IF n > Len(args) THEN command
    ELSE buildCommandFrom(
             IF args[n].type = "positional"
             THEN [command EXCEPT !.positionalArgs = Append(@, args[n].value)]
             ELSE [command EXCEPT !.namedArgs =
                      StoreNamedArg(@, args[n].name, args[n].value)],
             args, n + 1)

buildCommand(name, args) == buildCommandFrom(Command(name, <<>>, <<>>), args, 1)

\* Command = name:CommandName args:(_ Argument)*
parseCommand(g, t, i) ==
    Only({IF ~name.ok THEN name
          ELSE Only({Matched(args.pos, args.far,
                             buildCommand(name.val, args.val)) :
                     args \in {parseArguments(g, t, name.pos, <<>>, name.far)}}) :
          name \in {parseCommandName(t, i)}})

\* _ ")" after the command of a command expression.
CloseCommandExpression(t, command, far) ==
    Only({IF At(t, ws.pos) = ")"
          THEN Matched(ws.pos + 1, Max2(far, ws.far), command.val)
          ELSE Failed(Max2(far, ws.far)) :
          ws \in {parseWhitespace(t, command.pos)}})

\* CommandExpression = "(" _ command:Command _ ")"
parseCommandExpression(g, t, i) ==
    IF At(t, i) # "(" THEN Failed(i)
    ELSE Only({Only({IF ~command.ok THEN Failed(Max2(ws.far, command.far))
                     ELSE CloseCommandExpression(t, command,
                              Max2(ws.far, command.far)) :
                     command \in {parseCommand(g, t, ws.pos)}}) :
               ws \in {parseWhitespace(t, i + 1)}})

\* A match of rule followed by _.
ThenWhitespace(t, rule, far) ==
    IF ~rule.ok THEN Failed(Max2(far, rule.far))
    ELSE Only({Matched(ws.pos, Max2(far, Max2(rule.far, ws.far)), rule.val) :
               ws \in {parseWhitespace(t, rule.pos)}})

\* _ command:CommandExpression _ after the variable and the colon of an
\* assignment.
AssignedCommand(g, t, variable) ==
    Only({Only({IF command.ok
                THEN [command EXCEPT !.val =
                         VariableAssignment(variable.val, command.val)]
                ELSE command :
                command \in {ThenWhitespace(t,
                                parseCommandExpression(g, t, ws.pos), ws.far)}}) :
          ws \in {parseWhitespace(t, variable.pos + 1)}})

\* Assignment = variable:Identifier ":" _ command:CommandExpression _
parseAssignment(g, t, i) ==
    Only({IF ~variable.ok THEN variable
          ELSE IF At(t, variable.pos) # ":" THEN Failed(variable.pos)
          ELSE AssignedCommand(g, t, variable) :
          variable \in {parseIdentifier(t, i)}})

\* ExecutableCommand = command:CommandExpression _
parseExecutableCommand(g, t, i) ==
    Only({IF command.ok
          THEN [command EXCEPT !.val = ExecutableCommand(command.val)]
          ELSE command :
          command \in {ThenWhitespace(t, parseCommandExpression(g, t, i), 0)}})

\* Statement = Assignment / ExecutableCommand
parseStatement(g, t, i) ==
    OrElse(parseAssignment(g, t, i), parseExecutableCommand(g, t, i))

\* Statement* from position i: stmts are the statements matched so far.
RECURSIVE parseStatements(_, _, _, _, _)
parseStatements(g, t, i, stmts, far) ==
    Only({IF stmt.ok
          THEN parseStatements(g, t, stmt.pos, Append(stmts, stmt.val),
                               Max2(far, stmt.far))
          ELSE [pos |-> i, far |-> Max2(far, stmt.far), val |-> stmts] :
          stmt \in {parseStatement(g, t, i)}})

\* The end of Program: _, then the end of the input; what is left over is a
\* failure where the parser stopped.
EndOfProgram(t, stmts) ==
    Only({IF ws.pos = Len(t) + 1
          THEN Matched(ws.pos, Max2(stmts.far, ws.far), stmts.val)
          ELSE [ok |-> FALSE, pos |-> ws.pos,
                far |-> Max2(Max2(stmts.far, ws.far), ws.pos),
                val |-> stmts.val] :
          ws \in {parseWhitespace(t, stmts.pos)}})

\* Program = _ statements:Statement* _
parseProgram(g, t) ==
    Only({EndOfProgram(t, parseStatements(g, t, ws.pos, <<>>, ws.far)) :
          ws \in {parseWhitespace(t, 1)}})

\* The line and the column of position p: a newline starts a line.
Line(t, p) == 1 + Cardinality({k \in 1..(p - 1) : t[k] = "\n"})

Column(t, p) ==
    p - Max2(0, CHOOSE k \in 0..(p - 1) :
                    /\ k = 0 \/ t[k] = "\n"
                    /\ \A m \in (k + 1)..(p - 1) : t[m] # "\n")

(***************************************************************************)
(* parser.ts: the cached parser and tokenize.                              *)
(***************************************************************************)
\* let parser = null
NoParser == [generated |-> FALSE]

\* peggy.generate(grammarContent)
generate(grammarContent) == [generated |-> TRUE, grammar |-> grammarContent]

ensureParser(parser_) ==
    IF ~parser_.generated THEN generate(BundledGrammar) ELSE parser_

\* The message of the parser's SyntaxError; its wording is the library's.
SyntaxErrorMessage == "Expected ... but ... found."

\* The message tokenize throws for a failure at position p of args.
ParseErrorMessage(args, p) ==
    "Failed to parse command: " \o SyntaxErrorMessage
    \o " at line " \o ToString(Line(args, p))
    \o ", column " \o ToString(Column(args, p))

Returned(stmts) == [threw |-> FALSE, error |-> NoError, statements |-> stmts]

\* What tokenize makes of a failed parse: peggy's error, wrapped.
Rethrow(args, program) ==
    Threw(Error(ParseErrorMessage(args, program.far)))

\* A tokenize that returns the statements matched before the failure.
tokenizeLenient(parser_, args) ==
    Returned(parseProgram(ensureParser(parser_).grammar, args).val)

\* A tokenize whose first call only loads the parser and returns nothing.
tokenizeOnceLoaded(parser_, args) ==
    IF ~parser_.generated THEN Returned(<<>>) ELSE tokenizeLenient(parser_, args)

\* tokenize(args), the module's parser being parser_.
tokenize(parser_, args) ==
    IF Len(args) = 0 THEN Returned(<<>>)
    ELSE Only({IF program.ok THEN Returned(program.val)
               ELSE Rethrow(args, program) :
               program \in {parseProgram(ensureParser(parser_).grammar, args)}})

(***************************************************************************)
(* parser.ts: resolveCommandArgs.                                          *)
(***************************************************************************)
resolveArgument(context, arg) ==
    IF arg.type = "literal"
    THEN [threw |-> FALSE, error |-> NoError, value |-> arg.value]
    ELSE IF arg.type = "variable-ref"
    THEN LET value == Get(context, arg.name) IN
         IF value = Undefined
         THEN [threw |-> TRUE,
               error |-> Error("Variable '" \o arg.name \o "' is not defined"),
               value |-> ""]
         ELSE [threw |-> FALSE, error |-> NoError, value |-> String(value)]
    ELSE [threw |-> TRUE, error |-> Error("Unknown argument type"), value |-> ""]

\* The first error a sequence of resolutions throws, if any.
RECURSIVE FirstThrown(_, _)
FirstThrown(rs, i) ==
    IF i > Len(rs) THEN NoError
    ELSE IF rs[i].threw THEN rs[i].error
    ELSE FirstThrown(rs, i + 1)

\* resolvedNamedArgs after the first n entries have been stored in it.
RECURSIVE StoreNamed(_, _, _)
StoreNamed(entries, rs, n) ==
    IF n = 0 THEN EmptyRecord
    ELSE Set(StoreNamed(entries, rs, n - 1), entries[n].key, Str(rs[n].value))

resolveCommandArgs(globalContext_, command) ==
    LET pos == [i \in 1..Len(command.positionalArgs) |->
                   resolveArgument(globalContext_, command.positionalArgs[i])]
        named == [i \in 1..Len(command.namedArgs) |->
                   resolveArgument(globalContext_, command.namedArgs[i].value)]
        e == FirstThrown(pos \o named, 1)
    IN  IF e # NoError
        THEN [threw |-> TRUE, error |-> e,
              resolvedPositionalArgs |-> <<>>, resolvedNamedArgs |-> EmptyRecord]
        ELSE [threw |-> FALSE, error |-> NoError,
              resolvedPositionalArgs |-> [i \in 1..Len(pos) |-> pos[i].value],
              resolvedNamedArgs |->
                  StoreNamed(command.namedArgs, named, Len(named))]

\* A resolver that stores each resolved string in place of the argument.
resolveInPlace(globalContext_, command) ==
    [globalContext |-> globalContext_,
     command |->
         [command EXCEPT
             !.positionalArgs =
                 [i \in 1..Len(@) |->
                     IF resolveArgument(globalContext_, @[i]).threw THEN @[i]
                     ELSE Literal(resolveArgument(globalContext_, @[i]).value)]]]

\* What resolveCommandArgs leaves of the arguments it was given: it reads
\* them and assigns to its own resolvedPositionalArgs (the array map returns)
\* and resolvedNamedArgs only, on every path.
argumentsAfter(globalContext_, command) ==
    [globalContext |-> globalContext_, command |-> command]

(***************************************************************************)
(* runner.ts: validateStatements.                                          *)
(***************************************************************************)
\* JavaScript truthiness, for the values a registry lookup can give.
Truthy(v) ==
    /\ v.type # "undefined"
    /\ ~(v.type = "string" /\ v.str = "")

\* command.returns and command.action, for whatever the lookup returned.
ReturnsOf(command) ==
    IF "returns" \in DOMAIN command THEN command.returns ELSE Undefined

ActionOf(command) ==
    IF "action" \in DOMAIN command THEN command.action ELSE "undefined"

UnknownCommandMessage(name) == "Unknown command: '" \o name \o "'"

MustBeAssignedMessage(name, returns) ==
    "Command '" \o name \o "' returns a value and must be assigned to a variable\n"
    \o "  Expected: varname:(" \o name \o " ...) or _:(" \o name
    \o " ...) to ignore the return value\n" \o "  Returns: " \o String(returns)

\* A validation that reports the variable references of the named arguments.
ValidateStatementAndReferences(stmt, commandMap_) ==
    IF \E n \in 1..Len(stmt.command.namedArgs) :
           stmt.command.namedArgs[n].value.type = "variable-ref"
    THEN <<"Undefined variable in '" \o stmt.command.name \o "'">>
    ELSE <<>>

\* The errors one pass of the loop body pushes for stmt.
ValidateStatement(stmt, commandMap_) ==
    LET command == Get(commandMap_, stmt.command.name) IN
    IF ~Truthy(command)
    THEN <<UnknownCommandMessage(stmt.command.name)>>
    ELSE IF Truthy(ReturnsOf(command)) /\ stmt.type = "command"
    THEN <<MustBeAssignedMessage(stmt.command.name, ReturnsOf(command))>>
    ELSE <<>>

RECURSIVE ValidateFrom(_, _, _)
ValidateFrom(stmts, commandMap_, i) ==
    IF i > Len(stmts) THEN <<>>
    ELSE ValidateStatement(stmts[i], commandMap_)
         \o ValidateFrom(stmts, commandMap_, i + 1)

validateStatements(stmts, commandMap_) == ValidateFrom(stmts, commandMap_, 1)

\* errors.join("; ")
RECURSIVE Join(_, _)
Join(strs, i) ==
    IF i > Len(strs) THEN ""
    ELSE IF i = Len(strs) THEN strs[i]
    ELSE strs[i] \o "; " \o Join(strs, i + 1)

\* A gate that lets every statement sequence through.
ValidationFailedNever(errs) == FALSE

\* run's gate: errors.length > 0.
ValidationFailed(errs) == Len(errs) > 0

ValidationError(errs) == Error("Validation failed: " \o Join(errs, 1))

(***************************************************************************)
(* index.ts: createYesod, in a process that has parsed nothing yet.        *)
(***************************************************************************)
\* No run has started: the process is in /work.
NoRunStarted ==
    /\ cwd = "/work"
    /\ pc = [r \in AllRuns |-> "idle"]
    /\ statements = [r \in AllRuns |-> <<>>]
    /\ idx = [r \in AllRuns |-> 0]
    /\ workingDir = [r \in AllRuns |-> "/work"]
    /\ originalDir = [r \in AllRuns |-> "/work"]
    /\ globalContext = [r \in AllRuns |-> EmptyRecord]
    /\ executionTimes = [r \in AllRuns |-> EmptyRecord]
    /\ thrown = [r \in AllRuns |-> NoError]
    /\ outcome = [r \in AllRuns |-> Pending]
    /\ errors = [r \in AllRuns |-> <<>>]
    /\ calls = [r \in AllRuns |-> <<>>]
    /\ settled = [r \in AllRuns |-> 0]
    /\ returned = [r \in AllRuns |-> <<>>]
    /\ actionError = [r \in AllRuns |-> NoError]
    /\ input = [r \in AllRuns |-> <<>>]
    /\ argv = [r \in AllRuns |-> <<>>]

\* createYesod: const commandMap = {}
NothingRun ==
    /\ commandMap = EmptyRecord
    /\ NoRunStarted

\* tokenize has not been called directly.
NothingTokenized ==
    /\ text = <<>>
    /\ tokenized = NotCalled

\* resolveCommandArgs has not been called directly.
NothingResolved ==
    /\ givenContext = EmptyRecord
    /\ givenCommand = Command("", <<>>, <<>>)
    /\ resolution = NotCalled

Init ==
    /\ NothingRun
    /\ parser = NoParser
    /\ NothingTokenized
    /\ NothingResolved

(***************************************************************************)
(* index.ts: register.                                                     *)
(***************************************************************************)
register(cmdName, definition) ==
    /\ commandMap' = Set(commandMap, cmdName, definition)
    /\ UNCHANGED <<cwd, pc, statements, idx, workingDir, originalDir,
                   globalContext, executionTimes, thrown, outcome, errors,
                   calls, settled, returned, actionError, parser, input,
                   argv, direct>>

(***************************************************************************)
(* runner.ts: executeStatements, one stretch between awaits at a time.     *)
(*                                                                         *)
(* pc of a run:                                                            *)
(*   idle         run has not been called                                  *)
(*   awaitAction  suspended in executeCommand, the action in flight        *)
(*   withDir      executeCommand has settled, withDir's finally is next    *)
(*   afterWithDir withDir has returned, the loop body's last line is next  *)
(*   returning    executeStatements has returned, run's last lines remain  *)
(*   completed    the promise of run is resolved                           *)
(*   failed       the promise of run is rejected                           *)
(***************************************************************************)
Rejected(e) == [status |-> "rejected", error |-> e]
Resolved(v) == [status |-> "resolved", value |-> v]

NotAFunction ==
    [kind |-> "TypeError", message |-> "command.action is not a function"]

\* The record of one invocation of a command action.
Call(i, name, resolved) ==
    [index |-> i, name |-> name,
     positionalArgs |-> resolved.resolvedPositionalArgs,
     namedArgs |-> resolved.resolvedNamedArgs]

\* A loop that stays on the statement it has just executed.
NextIndexRetry(i) == i

\* The statement the loop turns to after statement i.
NextIndex(i) == i + 1

\* The loop of executeStatements from statement i up to the next await:
\* with no statement left it returns; else it looks the command up,
\* resolves the arguments against context, enters
\* withDir(dir, executeCommand) and calls the action.  log holds the
\* invocations the run has made so far.
EnterLoop(r, i, stmts, context, dir, log) ==
    IF i > Len(stmts)
    THEN /\ pc' = [pc EXCEPT ![r] = "returning"]
         /\ idx' = [idx EXCEPT ![r] = i]
         /\ outcome' = [outcome EXCEPT ![r] = Pending]
         /\ calls' = [calls EXCEPT ![r] = log]
         /\ thrown' = [thrown EXCEPT ![r] = NoError]
         /\ UNCHANGED <<cwd, originalDir>>
    ELSE
    LET stmt == stmts[i]
        command == Get(commandMap, stmt.command.name)
        resolved == resolveCommandArgs(context, stmt.command)
    IN  /\ idx' = [idx EXCEPT ![r] = i]
        /\ IF resolved.threw
           THEN /\ pc' = [pc EXCEPT ![r] = "failed"]
                /\ outcome' = [outcome EXCEPT ![r] = Rejected(resolved.error)]
                /\ calls' = [calls EXCEPT ![r] = log]
                /\ thrown' = [thrown EXCEPT ![r] = NoError]
                /\ UNCHANGED <<cwd, originalDir>>
           ELSE /\ originalDir' = [originalDir EXCEPT ![r] = cwd]
                /\ cwd' = dir
                /\ outcome' = [outcome EXCEPT ![r] = Pending]
                /\ IF ActionOf(command) = "callable"
                   THEN /\ calls' = [calls EXCEPT ![r] =
                               Append(log, Call(i, stmt.command.name, resolved))]
                        /\ thrown' = [thrown EXCEPT ![r] = NoError]
                        /\ pc' = [pc EXCEPT ![r] = "awaitAction"]
                   ELSE /\ calls' = [calls EXCEPT ![r] = log]
                        /\ thrown' = [thrown EXCEPT ![r] = NotAFunction]
                        /\ pc' = [pc EXCEPT ![r] = "withDir"]

\* globalContext[stmt.variableName] = result, for an assignment only.
Bind(context, stmt, result) ==
    IF stmt.type = "assignment"
    THEN Set(context, stmt.variableName, result)
    ELSE context

\* The action in flight resolves with result: executeCommand stores it.
actionResolves(r, result) ==
    /\ pc[r] = "awaitAction"
    /\ globalContext' = [globalContext EXCEPT ![r] =
           Bind(@, statements[r][idx[r]], result)]
    /\ returned' = [returned EXCEPT ![r] =
           IF statements[r][idx[r]].type = "assignment"
           THEN (idx[r] :> result) @@ @ ELSE @]
    /\ settled' = [settled EXCEPT ![r] = @ + 1]
    /\ pc' = [pc EXCEPT ![r] = "withDir"]
    /\ UNCHANGED <<commandMap, cwd, statements, idx, workingDir, originalDir,
                   executionTimes, thrown, outcome, errors, calls, actionError,
                   parser, input, argv, direct>>

\* An executeCommand that catches the action's error and throws a new one
\* naming the statement.
PropagateWrapped(e, stmt, i) ==
    [kind |-> "Error", message |-> "Command failed", cause |-> e,
     command |-> stmt.command.name, position |-> i]

\* What executeCommand lets out when the action rejects with e.
Propagate(e, stmt, i) == e

\* The action in flight rejects with e.
actionRejects(r, e) ==
    /\ pc[r] = "awaitAction"
    /\ thrown' = [thrown EXCEPT ![r] =
           Propagate(e, statements[r][idx[r]], idx[r])]
    /\ actionError' = [actionError EXCEPT ![r] = e]
    /\ settled' = [settled EXCEPT ![r] = @ + 1]
    /\ pc' = [pc EXCEPT ![r] = "withDir"]
    /\ UNCHANGED <<commandMap, cwd, statements, idx, workingDir, originalDir,
                   globalContext, executionTimes, outcome, errors, calls,
                   returned, parser, input, argv, direct>>

\* A finally block that swallows what the callback threw.
RethrowsNever(e) == FALSE

\* try/finally: what the callback threw is thrown again after the finally.
Rethrows(e) == e # NoError

\* A withDir that goes back only when the callback has not thrown.
chdirBackOnSuccess(original, current, e) ==
    IF e = NoError THEN original ELSE current

\* process.chdir(originalDir) in the finally block: where the process is
\* afterwards, having been in current, whatever the callback threw.
chdirBack(original, current, e) == original

\* withDir's finally: back to originalDir; an error goes on to the caller of
\* run, as neither executeStatements nor run catches it.
withDirFinally(r) ==
    /\ pc[r] = "withDir"
    /\ cwd' = chdirBack(originalDir[r], cwd, thrown[r])
    /\ IF Rethrows(thrown[r])
       THEN /\ pc' = [pc EXCEPT ![r] = "failed"]
            /\ outcome' = [outcome EXCEPT ![r] = Rejected(thrown[r])]
       ELSE /\ pc' = [pc EXCEPT ![r] = "afterWithDir"]
            /\ UNCHANGED outcome
    /\ UNCHANGED <<commandMap, statements, idx, workingDir, originalDir,
                   globalContext, executionTimes, thrown, errors, calls,
                   settled, returned, actionError, parser, input, argv, direct>>

\* The duration measured for statement i, kept symbolic: the time between
\* the two readings of the clock around it.
Duration(i) == [type |-> "number", elapsedOf |-> i]

\* The loop body's last line, then the next pass of the loop.
nextStatement(r) ==
    /\ pc[r] = "afterWithDir"
    /\ executionTimes' = [executionTimes EXCEPT ![r] =
           Set(@, statements[r][idx[r]].command.name, Duration(idx[r]))]
    /\ EnterLoop(r, NextIndex(idx[r]), statements[r], globalContext[r],
                 workingDir[r], calls[r])
    /\ UNCHANGED <<commandMap, statements, workingDir, globalContext, errors,
                   settled, returned, actionError, parser, input, argv, direct>>

(***************************************************************************)
(* index.ts: run.                                                          *)
(***************************************************************************)
\* args.join(" ")
RECURSIVE JoinArgs(_)
JoinArgs(args) ==
    IF Len(args) = 0 THEN <<>>
    ELSE IF Len(args) = 1 THEN args[1]
    ELSE args[1] \o <<" ">> \o JoinArgs(Tail(args))

\* A test for help that looks at the first argument only.
IsHelpFirstOnly(args) == Len(args) = 0 \/ args[1] \in HelpFlags

IsHelp(args) ==
    Len(args) = 0 \/ \E k \in 1..Len(args) : args[k] \in HelpFlags

\* run settles before any await of an action.
Settle(r, o) ==
    /\ pc' = [pc EXCEPT ![r] = IF o.status = "resolved" THEN "completed" ELSE "failed"]
    /\ outcome' = [outcome EXCEPT ![r] = o]
    /\ idx' = [idx EXCEPT ![r] = 0]
    /\ calls' = [calls EXCEPT ![r] = <<>>]
    /\ thrown' = [thrown EXCEPT ![r] = NoError]
    /\ UNCHANGED <<cwd, originalDir>>

\* A context that is one object for all calls: a call starts with what the
\* other run has bound.
sharedContext(contexts, r) == contexts[CHOOSE o \in AllRuns : o # r]

\* const globalContext = {}: the context a call of executeStatements starts
\* with, whatever the contexts of the runs are.
newContext(contexts, r) == EmptyRecord

\* run(args), up to its first await.  Each run is one call of run.
run(r, args) ==
    /\ pc[r] = "idle"
    /\ \E joined \in {IF IsHelp(args) THEN <<>> ELSE JoinArgs(args)} :
       \E parsed \in {tokenize(parser, joined)} :
       LET stmts == IF IsHelp(args) \/ parsed.threw THEN <<>> ELSE parsed.statements
           errs == validateStatements(stmts, commandMap)
       IN  /\ input' = [input EXCEPT ![r] = joined]
           /\ argv' = [argv EXCEPT ![r] = args]
           /\ parser' = IF IsHelp(args) THEN parser ELSE ensureParser(parser)
           /\ statements' = [statements EXCEPT ![r] = stmts]
           /\ globalContext' = [globalContext EXCEPT ![r] =
                  newContext(globalContext, r)]
           /\ executionTimes' = [executionTimes EXCEPT ![r] = EmptyRecord]
           /\ errors' = [errors EXCEPT ![r] = errs]
           /\ workingDir' = [workingDir EXCEPT ![r] = cwd]
           /\ IF IsHelp(args)
              THEN Settle(r, Resolved(EmptyRecord))
              ELSE IF parsed.threw
              THEN Settle(r, Rejected(parsed.error))
              ELSE IF ValidationFailed(errs)
              THEN Settle(r, Rejected(ValidationError(errs)))
              ELSE EnterLoop(r, 1, stmts, newContext(globalContext, r), cwd,
                             <<>>)
    /\ UNCHANGED <<commandMap, settled, returned, actionError, direct>>

\* run's last lines: the summary is logged and the bindings are returned.
runReturns(r) ==
    /\ pc[r] = "returning"
    /\ pc' = [pc EXCEPT ![r] = "completed"]
    /\ outcome' = [outcome EXCEPT ![r] = Resolved(globalContext[r])]
    /\ UNCHANGED <<commandMap, cwd, statements, idx, workingDir, originalDir,
                   globalContext, executionTimes, thrown, errors, calls,
                   settled, returned, actionError, parser, input, argv, direct>>

(***************************************************************************)
(* The specification: a host that registers commands and calls run, one    *)
(* run at a time, and command actions that resolve or reject.              *)
(***************************************************************************)
Step(r) ==
    \/ pc[r] = "idle" /\ \E args \in RunArgs : run(r, args)
    \/ \E result \in Values : actionResolves(r, result)
    \/ \E e \in ActionErrors : actionRejects(r, e)
    \/ withDirFinally(r)
    \/ nextStatement(r)
    \/ runReturns(r)

Next ==
    \/ \E reg \in Registrations : register(reg[1], reg[2])
    \/ \E r \in SoloRuns : Step(r)

Spec == Init /\ [][Next]_vars

(***************************************************************************)
(* The same host, when every action that is invoked completes or fails in  *)
(* the end and the event loop runs every continuation that is ready.       *)
(***************************************************************************)
\* The steps of run r after its first await.
Continue(r) ==
    \/ \E result \in Values : actionResolves(r, result)
    \/ \E e \in ActionErrors : actionRejects(r, e)
    \/ withDirFinally(r)
    \/ nextStatement(r)
    \/ runReturns(r)

SpecFair == Spec /\ \A r \in SoloRuns : WF_vars(Continue(r))

(***************************************************************************)
(* Two runs of one createYesod instance, interleaved at their awaits.      *)
(***************************************************************************)
\* The longest statement sequence either of the two runs is given.
MaxConcurrentStmts == 2

\* What the two runs are called with:  x:(get k)  and  (use val:$x)
ConcurrentSources ==
    {<<"x", ":", "(", "g", "e", "t", " ", "k", ")">>,
     <<"(", "u", "s", "e", " ", "v", "a", "l", ":", "$", "x", ")">>}

ConcurrentArgs == SeqsUpTo(ConcurrentSources, MaxConcurrentStmts)

\* What the actions a run invokes resolve with: a value that no action of
\* the other run resolves with, so that a binding tells which run made it.
ResultIn(r) == Str(r)

StepOfTwo(r) ==
    \/ pc[r] = "idle" /\ \E args \in ConcurrentArgs : run(r, args)
    \/ actionResolves(r, ResultIn(r))
    \/ \E e \in ActionErrors : actionRejects(r, e)
    \/ withDirFinally(r)
    \/ nextStatement(r)
    \/ runReturns(r)

NextTwoRuns ==
    \/ \E reg \in Registrations : register(reg[1], reg[2])
    \/ \E r \in AllRuns : StepOfTwo(r)

SpecTwoRuns == Init /\ [][NextTwoRuns]_vars

(***************************************************************************)
(* executeStatements called directly, with a working directory of its own. *)
(***************************************************************************)
\* options.workingDir: the directories the calls are given.
Dirs == {"/a", "/b"}

\* commandMap: get and use, as register leaves them, and the same after
\* register("__proto__", definition).
Registry ==
    Set(Set(EmptyRecord, "get", Definition(Str("string"))),
        "use", Definition(Undefined))

Registries == {Registry, Set(Registry, "__proto__", Definition(Undefined))}

\* statements: what tokenize returns for up to MaxConcurrentStmts of the
\* texts  x:(get k)  (use val:$x)  (__proto__)
ExecuteSources ==
    ConcurrentSources
    \cup {<<"(", "_", "_", "p", "r", "o", "t", "o", "_", "_", ")">>}

StatementLists ==
    {tokenize(NoParser, JoinArgs(a)).statements :
        a \in SeqsUpTo(ExecuteSources, MaxConcurrentStmts)}

ExecuteInit ==
    /\ commandMap \in Registries
    /\ NoRunStarted
    /\ parser = NoParser
    /\ NothingTokenized
    /\ NothingResolved

\* executeStatements(stmts, commandMap, {logger, workingDir: dir}), up to
\* its first await.
executeStatements(r, stmts, dir) ==
    /\ pc[r] = "idle"
    /\ statements' = [statements EXCEPT ![r] = stmts]
    /\ workingDir' = [workingDir EXCEPT ![r] = dir]
    /\ globalContext' = [globalContext EXCEPT ![r] =
           newContext(globalContext, r)]
    /\ executionTimes' = [executionTimes EXCEPT ![r] = EmptyRecord]
    /\ EnterLoop(r, 1, stmts, newContext(globalContext, r), dir, <<>>)
    /\ UNCHANGED <<commandMap, errors, settled, returned, actionError, parser,
                   input, argv, direct>>

\* return {globalContext, executionTimes, totalTime}
executeStatementsReturns(r) ==
    /\ pc[r] = "returning"
    /\ pc' = [pc EXCEPT ![r] = "completed"]
    /\ outcome' = [outcome EXCEPT ![r] =
           Resolved([globalContext |-> globalContext[r],
                     executionTimes |-> executionTimes[r]])]
    /\ UNCHANGED <<commandMap, cwd, statements, idx, workingDir, originalDir,
                   globalContext, executionTimes, thrown, errors, calls,
                   settled, returned, actionError, parser, input, argv,
                   direct>>

ExecuteStep(r) ==
    \/ \E stmts \in StatementLists, dir \in Dirs : executeStatements(r, stmts, dir)
    \/ \E result \in Values : actionResolves(r, result)
    \/ \E e \in ActionErrors : actionRejects(r, e)
    \/ withDirFinally(r)
    \/ nextStatement(r)
    \/ executeStatementsReturns(r)

\* One call at a time.
NextExecute == \E r \in SoloRuns : ExecuteStep(r)

SpecExecute == ExecuteInit /\ [][NextExecute]_vars

\* Two calls, interleaved at their awaits.
NextExecuteTwo == \E r \in AllRuns : ExecuteStep(r)

SpecExecuteTwo == ExecuteInit /\ [][NextExecuteTwo]_vars

(***************************************************************************)
(* resolveCommandArgs called directly, on a binding context a run can have *)
(* built and a command the parser can have produced.                       *)
(***************************************************************************)
\* The most arguments a command given to the resolver has.
MaxArgs == 2

\* What a run leaves alone when one of the two functions is called directly.
runVars == <<commandMap, cwd, pc, statements, idx, workingDir, originalDir,
             globalContext, executionTimes, thrown, outcome, errors, calls,
             settled, returned, actionError, input, argv>>

\* The names assignments have bound, and the contexts they leave: every
\* subset S of the names, each bound to a value an action resolved with.
BoundNames == {"x", "y", "__proto__"}

RECURSIVE BindAll(_, _, _)
BindAll(context, S, f) ==
    IF S = {} THEN context
    ELSE LET v == CHOOSE n \in S : TRUE IN
         BindAll(Set(context, v, f[v]), S \ {v}, f)

Contexts ==
    {BindAll(EmptyRecord, S, f) : S \in SUBSET BoundNames,
                                  f \in [BoundNames -> Values]}

\* The arguments of the commands, as texts:  k  $x  $y  a:$x  b:$y  c:k
ArgumentTexts ==
    {<<" ", "k">>, <<" ", "$", "x">>, <<" ", "$", "y">>,
     <<" ", "a", ":", "$", "x">>, <<" ", "b", ":", "$", "y">>,
     <<" ", "c", ":", "k">>}

RECURSIVE Concat(_)
Concat(ss) == IF Len(ss) = 0 THEN <<>> ELSE Head(ss) \o Concat(Tail(ss))

\* The commands: what the parser makes of (cmd ...) with up to MaxArgs of
\* these arguments.
Commands ==
    {tokenize(NoParser, <<"(", "c", "m", "d">> \o Concat(as) \o <<")">>)
         .statements[1].command :
     as \in SeqsUpTo(ArgumentTexts, MaxArgs)}

ResolverInit ==
    /\ NothingRun
    /\ parser = NoParser
    /\ NothingTokenized
    /\ givenContext \in Contexts
    /\ givenCommand \in Commands
    /\ resolution = NotCalled

\* One call resolveCommandArgs(givenContext, givenCommand).
resolve ==
    /\ ~resolution.called
    /\ resolution' = [called |-> TRUE,
                      result |-> resolveCommandArgs(givenContext, givenCommand)]
    /\ givenContext' = argumentsAfter(givenContext, givenCommand).globalContext
    /\ givenCommand' = argumentsAfter(givenContext, givenCommand).command
    /\ UNCHANGED <<runVars, parser, text, tokenized>>

SpecResolve == ResolverInit /\ [][resolve]_vars

(***************************************************************************)
(* tokenize called directly, and initParserWithGrammar.                    *)
(***************************************************************************)
\* The most fragments a blank text is made of, and the most items between
\* the quotes of a quoted string.
MaxBlank == 3
MaxQuoted == 2

\* The most arguments of a command with repeated keys.
MaxMixed == 3

\* What the rule _ skips: a space, line ends, a line continuation, a comment
\* with its line end, and a comment that runs to the end of the text.
BlankFragments ==
    {<<" ">>, <<"\n">>, <<"\r">>, <<"\\", "\n">>,
     <<"/", "/", "c", "\n">>, <<"/", "/", " ", "(", "a", ")">>}

BlankTexts == {Concat(fs) : fs \in SeqsUpTo(BlankFragments, MaxBlank)}

\* The keys of named arguments, and their values as written and as parsed.
ArgumentKeys ==
    {<<"a">>, <<"e", "n", "v">>,
     <<"_", "_", "p", "r", "o", "t", "o", "_", "_">>,
     <<"c", "o", "n", "s", "t", "r", "u", "c", "t", "o", "r">>}

ArgumentValues ==
    {<<<<"b">>, Literal("b")>>,
     <<<<"p", "r", "o", "d">>, Literal("prod")>>,
     <<<<"$", "v">>, ReferencedVariable("v")>>,
     <<<<"\"", "b", " ", "c", "\"">>, Literal("b c")>>}

\* (cmd <key>:<value>)
NamedText(key, written) ==
    <<"(", "c", "m", "d", " ">> \o key \o <<":">> \o written \o <<")">>

NamedTexts == {NamedText(key, v[1]) : key \in ArgumentKeys, v \in ArgumentValues}

\* (server1:deploy env:prod)
NamespacedText ==
    <<"(", "s", "e", "r", "v", "e", "r", "1", ":", "d", "e", "p", "l", "o", "y",
      " ", "e", "n", "v", ":", "p", "r", "o", "d", ")">>

\* What stands between the quotes of a quoted string: characters other than
\* the quote and the backslash, and escapes, a backslash and any character.
PlainChars == {"x", " ", ":", ")", "$", "/", "\n"}
EscapedChars == {"\"", "\\", "n", "x", "\n"}

QuotedItems == {<<c>> : c \in PlainChars} \cup {<<"\\", c>> : c \in EscapedChars}

\* (cmd "<items>")
QuotedText(items) ==
    <<"(", "c", "m", "d", " ", "\"">> \o Concat(items) \o <<"\"", ")">>

QuotedTexts == {QuotedText(items) : items \in SeqsUpTo(QuotedItems, MaxQuoted)}

\* Arguments as written, with the key (none for a positional argument) and
\* the value the grammar gives them:  a:1  a:2  __proto__:3  p  q
MixedArguments ==
    {[written |-> <<" ", "a", ":", "1">>, key |-> "a", value |-> Literal("1")],
     [written |-> <<" ", "a", ":", "2">>, key |-> "a", value |-> Literal("2")],
     [written |-> <<" ", "_", "_", "p", "r", "o", "t", "o", "_", "_", ":", "3">>,
      key |-> "__proto__", value |-> Literal("3")],
     [written |-> <<" ", "p">>, key |-> "", value |-> Literal("p")],
     [written |-> <<" ", "q">>, key |-> "", value |-> Literal("q")]}

\* (cmd <argument> ... <argument>)
MixedText(arguments) ==
    <<"(", "c", "m", "d">>
    \o Concat([k \in 1..Len(arguments) |-> arguments[k].written])
    \o <<")">>

MixedTexts == {MixedText(as) : as \in SeqsUpTo(MixedArguments, MaxMixed)}

Texts ==
    BlankTexts \cup NamedTexts \cup {NamespacedText} \cup QuotedTexts
    \cup MixedTexts

\* The grammars initParserWithGrammar is given.
Grammars == {BundledGrammar, CustomGrammar}

ParserInit ==
    /\ NothingRun
    /\ parser = NoParser
    /\ text \in Texts
    /\ tokenized = NotCalled
    /\ NothingResolved

\* One call tokenize(text); grammar is the grammar of the parser it used,
\* earlier what the call before this one used and returned.
tokenizeCall ==
    /\ tokenized' = [called |-> TRUE,
                     grammar |-> ensureParser(parser).grammar,
                     result |-> tokenize(parser, text),
                     earlier |-> IF tokenized.called
                                 THEN [called |-> TRUE,
                                       grammar |-> tokenized.grammar,
                                       result |-> tokenized.result]
                                 ELSE NotCalled]
    /\ parser' = ensureParser(parser)
    /\ UNCHANGED <<runVars, text, givenContext, givenCommand, resolution>>

initParserWithGrammar(grammarContent) ==
    /\ parser' = generate(grammarContent)
    /\ UNCHANGED <<runVars, direct>>

NextParser ==
    \/ tokenizeCall
    \/ \E g \in Grammars : initParserWithGrammar(g)

SpecParser == ParserInit /\ [][NextParser]_vars

(***************************************************************************)
(* Vocabulary of the properties.                                           *)
(***************************************************************************)
Range(f) == {f[i] : i \in DOMAIN f}

\* name has been registered through register.
Registered(name) == name \in Keys(commandMap)

\* The variables the arguments of a command reference.
RefsOf(command) ==
    {a.name : a \in {b \in Range(command.positionalArgs)
                         \cup {n.value : n \in Range(command.namedArgs)} :
                     b.type = "variable-ref"}}

\* The statements before statement i that assign v.
AssignmentsBefore(stmts, v, i) ==
    {j \in 1..(i - 1) : stmts[j].type = "assignment" /\ stmts[j].variableName = v}

\* The variables statement i references and no earlier statement assigns.
UnassignedRefs(stmts, i) ==
    {v \in RefsOf(stmts[i].command) : AssignmentsBefore(stmts, v, i) = {}}

Max(S) == CHOOSE m \in S : \A n \in S : n <= m

\* The action of some statement of run r has rejected.
ActionFailed(r) == actionError[r] # NoError

(***************************************************************************)
(* C1                                                                      *)
(***************************************************************************)
\* C1: when validateStatements returns at least one error to run, no command
\* action of that run is invoked, not even for valid statements before the
\* offending one, and run rejects with the validation error; an action is
\* invoked only in a run whose validation returned no error.
C1_ValidationGate ==
    \A r \in AllRuns :
        /\ Len(errors[r]) > 0 =>
              /\ calls[r] = <<>>
              /\ pc[r] = "failed"
              /\ outcome[r] = Rejected(ValidationError(errors[r]))
        /\ calls[r] # <<>> => errors[r] = <<>>

\* A run rejected by validation whose first statement is valid and callable.
C1_Witness ==
    \E r \in AllRuns :
        /\ pc[r] = "failed"
        /\ Len(errors[r]) > 0
        /\ Len(statements[r]) >= 2
        /\ Registered(statements[r][1].command.name)
        /\ statements[r][1].type = "assignment"
        /\ calls[r] = <<>>

(***************************************************************************)
(* C4                                                                      *)
(***************************************************************************)
\* C4: the k-th invocation of a run is the action of its k-th statement
\* (source order, none skipped, none invoked twice), and at most one
\* invocation is unsettled at any time, which is the case exactly while the
\* run is suspended on it: the next action is invoked only once the previous
\* one has completed.
C4_Sequential ==
    \A r \in AllRuns :
        /\ \A k \in 1..Len(calls[r]) :
              /\ calls[r][k].index = k
              /\ calls[r][k].name = statements[r][k].command.name
        /\ Len(calls[r]) - settled[r] \in {0, 1}
        /\ (Len(calls[r]) - settled[r] = 1) <=> (pc[r] = "awaitAction")

\* A run that has invoked and completed three actions.
C4_Witness ==
    \E r \in AllRuns :
        /\ pc[r] = "completed"
        /\ Len(calls[r]) = 3
        /\ settled[r] = 3

(***************************************************************************)
(* C8                                                                      *)
(***************************************************************************)
\* C8: once the action of statement i has rejected, the run is on its way
\* out or has failed: the failed invocation is its last one, nothing is
\* resolved to the caller, and in the failed state the promise of run is
\* rejected, so neither the partial bindings nor an empty map are returned.
C8_ActionFailureAborts ==
    \A r \in AllRuns :
        ActionFailed(r) =>
            /\ pc[r] \in {"withDir", "failed"}
            /\ Len(calls[r]) = idx[r]
            /\ settled[r] = Len(calls[r])
            /\ outcome[r].status # "resolved"
            /\ pc[r] = "failed" => outcome[r].status = "rejected"

\* A failed run whose second statement's action rejected, with a binding
\* already made and a statement left.
C8_Witness ==
    \E r \in AllRuns :
        /\ pc[r] = "failed"
        /\ ActionFailed(r)
        /\ idx[r] = 2
        /\ Len(statements[r]) = 3
        /\ Keys(globalContext[r]) # {}

C7_UnregisteredIsUnknown ==
    \A r \in AllRuns :
        \A i \in 1..Len(statements[r]) :
            LET name == statements[r][i].command.name IN
            /\ ~Registered(name) =>
                  UnknownCommandMessage(name) \in Range(errors[r])
            /\ idx[r] >= 1 =>
                  /\ Registered(name)
                  /\ ActionOf(Get(commandMap, name)) = "callable"

(***************************************************************************)
(* C5                                                                      *)
(***************************************************************************)
\* The entries the validator owes a statement sequence: for each statement
\* in order, one for an unregistered command, else one for a bare statement
\* of a command that declares returns, else none.
RECURSIVE ExpectedErrors(_, _)
ExpectedErrors(stmts, i) ==
    IF i > Len(stmts) THEN <<>>
    ELSE LET stmt == stmts[i]
             name == stmt.command.name
         IN  (IF ~Registered(name)
              THEN <<UnknownCommandMessage(name)>>
              ELSE IF stmt.type = "command"
                      /\ Truthy(commandMap.own[name].returns)
              THEN <<MustBeAssignedMessage(name, commandMap.own[name].returns)>>
              ELSE <<>>)
             \o ExpectedErrors(stmts, i + 1)

\* C5: the errors validateStatements returns to run are, in statement order,
\* one entry for every statement of an unregistered command and one for
\* every bare statement of a returns-declared command, and nothing else; N
\* statements of N unregistered commands give N entries.
C5_ExhaustiveErrors ==
    [][\A r \in AllRuns :
          (pc[r] = "idle" /\ pc'[r] # "idle") =>
              errors'[r] = ExpectedErrors(statements'[r], 1)]_vars

(***************************************************************************)
(* C6                                                                      *)
(***************************************************************************)
\* name is registered with a definition that declares a non-empty returns.
DeclaresReturns(name) ==
    Registered(name) /\ Truthy(commandMap.own[name].returns)

\* C6: for a registered command that declares returns, a bare statement
\* gives the validation error naming the command and asking for an
\* assignment; an assignment statement gives no validation error and, when
\* its action completes, its variable is bound to the action's result.
C6_ReturnsContract ==
    [][\A r \in AllRuns :
          /\ (pc[r] = "idle" /\ pc'[r] # "idle") =>
                \A i \in 1..Len(statements'[r]) :
                    LET stmt == statements'[r][i]
                        name == stmt.command.name
                    IN  DeclaresReturns(name) =>
                          IF stmt.type = "command"
                          THEN MustBeAssignedMessage(name,
                                   commandMap.own[name].returns)
                                   \in Range(errors'[r])
                          ELSE ValidateStatement(stmt, commandMap) = <<>>
          /\ (pc[r] = "awaitAction" /\ ~ActionFailed(r)' ) =>
                LET stmt == statements[r][idx[r]] IN
                (stmt.type = "assignment" /\ DeclaresReturns(stmt.command.name)
                    /\ settled'[r] = settled[r] + 1) =>
                    Get(globalContext'[r], stmt.variableName)
                        = returned'[r][idx[r]]]_vars

(***************************************************************************)
(* C10                                                                     *)
(***************************************************************************)
\* The last completed assignment to v in run r.
LastCompleted(r, v) ==
    Max({j \in DOMAIN returned[r] : statements[r][j].variableName = v})

\* C10: once an assignment's action has completed, its variable is bound to
\* what the latest completed assignment to that variable returned, and a
\* completed run returns these bindings.
C10_LastWriteWins ==
    \A r \in AllRuns :
        \A j \in DOMAIN returned[r] :
            LET v == statements[r][j].variableName IN
            /\ Get(globalContext[r], v) = returned[r][LastCompleted(r, v)]
            /\ pc[r] = "completed" =>
                  Get(outcome[r].value, v) = returned[r][LastCompleted(r, v)]

(***************************************************************************)
(* C2                                                                      *)
(***************************************************************************)
\* What argument arg of statement i must resolve to, given the assignments
\* completed before it: a literal to itself, a reference to the string form
\* of what the latest earlier assignment to that variable returned.
ResolvesAsBound(r, i, arg, got) ==
    IF arg.type = "literal" THEN got = arg.value
    ELSE LET js == AssignmentsBefore(statements[r], arg.name, i) IN
         /\ js # {}
         /\ Max(js) \in DOMAIN returned[r]
         /\ got = String(returned[r][Max(js)])

\* C2: every invocation receives arguments resolved against exactly the
\* bindings made by the assignments before its statement: after x:(A) with A
\* returning "42", (B val:$x) invokes B with val = "42".
C2_SequentialBindings ==
    \A r \in AllRuns :
        \A k \in 1..Len(calls[r]) :
            LET c == calls[r][k]
                command == statements[r][c.index].command
            IN  /\ \A p \in 1..Len(command.positionalArgs) :
                      ResolvesAsBound(r, c.index, command.positionalArgs[p],
                                      c.positionalArgs[p])
                /\ \A n \in 1..Len(command.namedArgs) :
                      /\ command.namedArgs[n].key \in Keys(c.namedArgs)
                      /\ ResolvesAsBound(r, c.index, command.namedArgs[n].value,
                             c.namedArgs.own[command.namedArgs[n].key].str)

(***************************************************************************)
(* C3                                                                      *)
(***************************************************************************)
UndefinedVariable(v) == Error("Variable '" \o v \o "' is not defined")

\* C3: a statement referencing a variable that no earlier statement assigns
\* is never invoked, nor is any later statement; when the run reaches it,
\* all earlier actions have been invoked and the run fails with the
\* undefined-variable error naming that variable.
C3_ForwardReferenceFails ==
    \A r \in AllRuns :
        \A i \in 1..Len(statements[r]) :
            UnassignedRefs(statements[r], i) # {} =>
                /\ \A k \in 1..Len(calls[r]) : calls[r][k].index < i
                /\ idx[r] = i =>
                      /\ pc[r] = "failed"
                      /\ Len(calls[r]) = i - 1
                      /\ \E v \in UnassignedRefs(statements[r], i) :
                            outcome[r] = Rejected(UndefinedVariable(v))

(***************************************************************************)
(* C11                                                                     *)
(***************************************************************************)
\* C11: when a run reaches a statement, resolving its arguments fails with
\* the undefined-variable error exactly for a name absent from the bindings:
\* a reference to a name an earlier (hence completed) assignment of the run
\* bound never gives that error, whatever the action returned, and a
\* statement with a reference to a name never assigned fails with it.
C11_UndefinedExactlyWhenAbsent ==
    \A r \in AllRuns :
        \A i \in 1..Len(statements[r]) :
            idx[r] = i =>
                /\ \A v \in RefsOf(statements[r][i].command) :
                      AssignmentsBefore(statements[r], v, i) # {} =>
                          outcome[r] # Rejected(UndefinedVariable(v))
                /\ UnassignedRefs(statements[r], i) # {} =>
                      \E v \in UnassignedRefs(statements[r], i) :
                          outcome[r] = Rejected(UndefinedVariable(v))

(***************************************************************************)
(* C12                                                                     *)
(***************************************************************************)
\* What an argument must resolve to in a context: a literal to itself, a
\* reference to the string form of the value its name is bound to.
ExpectedString(context, arg) ==
    IF arg.type = "literal" THEN arg.value
    ELSE String(context.own[arg.name])

\* C12: when every variable the command references is bound in the context
\* (a key of it), resolveCommandArgs returns: positional arguments of the
\* length and in the order of the command's, named arguments with the key
\* set of the command's, each literal as itself and each reference as the
\* string form of its bound value.
C12_ResolvesToStrings ==
    (resolution.called /\ RefsOf(givenCommand) \subseteq Keys(givenContext)) =>
        LET result == resolution.result
            positional == givenCommand.positionalArgs
            named == givenCommand.namedArgs
        IN  /\ ~result.threw
            /\ Len(result.resolvedPositionalArgs) = Len(positional)
            /\ \A p \in 1..Len(positional) :
                  result.resolvedPositionalArgs[p]
                      = ExpectedString(givenContext, positional[p])
            /\ Keys(result.resolvedNamedArgs)
                  = {named[n].key : n \in 1..Len(named)}
            /\ \A n \in 1..Len(named) :
                  Get(result.resolvedNamedArgs, named[n].key)
                      = Str(ExpectedString(givenContext, named[n].value))

C14_SeparateContexts ==
    \A r \in AllRuns :
        /\ \A v \in Keys(globalContext[r]) :
              /\ \E j \in DOMAIN returned[r] : statements[r][j].variableName = v
              /\ globalContext[r].own[v] = returned[r][LastCompleted(r, v)]
        /\ \A j \in DOMAIN returned[r] : returned[r][j] = ResultIn(r)
        /\ \A k \in 1..Len(calls[r]) :
              LET c == calls[r][k]
                  command == statements[r][c.index].command
              IN  \A n \in 1..Len(command.namedArgs) :
                      ResolvesAsBound(r, c.index, command.namedArgs[n].value,
                          c.namedArgs.own[command.namedArgs[n].key].str)
        /\ \A i \in 1..Len(statements[r]) :
              (idx[r] = i /\ UnassignedRefs(statements[r], i) # {}) =>
                  /\ Len(calls[r]) = i - 1
                  /\ \E v \in UnassignedRefs(statements[r], i) :
                        outcome[r] = Rejected(UndefinedVariable(v))
        /\ (pc[r] = "completed" /\ statements[r] # <<>>) =>
              outcome[r] = Resolved(globalContext[r])

\* Two runs interleaved at an await: r1 is suspended in its second action
\* with x bound, r2 has referenced x meanwhile and failed, x being undefined
\* in it.
C14_Witness ==
    /\ pc["r1"] = "awaitAction"
    /\ idx["r1"] = 2
    /\ "x" \in Keys(globalContext["r1"])
    /\ pc["r2"] = "failed"
    /\ outcome["r2"] = Rejected(UndefinedVariable("x"))

(***************************************************************************)
(* C15                                                                     *)
(***************************************************************************)
\* The text of run r does not parse.
ParseFails(r) ==
    /\ pc[r] # "idle"
    /\ input[r] # <<>>
    /\ ~parseProgram(BundledGrammar, input[r]).ok

\* C15: a call of run whose text does not parse fails at once with
\* tokenize's error, which names the line and the column of a position of
\* the text (the one past its end included); the run has no statement list,
\* not even the statements matched before the failure, has validated nothing
\* and invoked no action, and, having failed, does nothing more.
C15_ParseFailureIsFatal ==
    [][\A r \in AllRuns :
          /\ (pc[r] = "idle" /\ pc'[r] # "idle" /\ input'[r] # <<>>) =>
                \A program \in {parseProgram(BundledGrammar, input'[r])} :
                    ~program.ok =>
                        /\ pc'[r] = "failed"
                        /\ statements'[r] = <<>>
                        /\ errors'[r] = <<>>
                        /\ calls'[r] = <<>>
                        /\ program.far \in 1..(Len(input'[r]) + 1)
                        /\ outcome'[r] = Rejected(Error(
                              "Failed to parse command: " \o SyntaxErrorMessage
                              \o " at line "
                              \o ToString(Line(input'[r], program.far))
                              \o ", column "
                              \o ToString(Column(input'[r], program.far))))
          /\ pc[r] = "failed" =>
                /\ pc'[r] = "failed"
                /\ statements'[r] = statements[r]
                /\ errors'[r] = errors[r]
                /\ calls'[r] = calls[r]
                /\ outcome'[r] = outcome[r]]_vars

\* A text that fails after a well-formed statement: x:(get k) (use , with
\* get registered, so that the prefix alone would have been run.
C15_Witness ==
    /\ ParseFails("r1")
    /\ Len(parseProgram(BundledGrammar, input["r1"]).val) = 1
    /\ "variableName" \in DOMAIN parseProgram(BundledGrammar, input["r1"]).val[1]
    /\ parseProgram(BundledGrammar, input["r1"]).val[1].command.name = "get"
    /\ Registered("get")
    /\ pc["r1"] = "failed"

(***************************************************************************)
(* C16                                                                     *)
(***************************************************************************)
\* tokenize has been called on the text, the bundled grammar in force.
Tokenized == tokenized.called /\ tokenized.grammar = BundledGrammar

\* C16: tokenize of the empty text, of blank text and of text made of line
\* comments and line continuations only returns the empty sequence of
\* statements and throws nothing.
C16_BlankIsEmpty ==
    (Tokenized /\ text \in BlankTexts) => tokenized.result = Returned(<<>>)

\* tokenize has returned for a text of a comment, a continuation and a
\* comment that the end of the text ends.
C16_Witness ==
    /\ Tokenized
    /\ text = <<"/", "/", "c", "\n", "\\", "\n", "/", "/", " ", "(", "a", ")">>
    /\ ~tokenized.result.threw

(***************************************************************************)
(* C17                                                                     *)
(***************************************************************************)
\* C17: an argument written identifier ':' value is parsed as one named
\* argument, its key the identifier and its value the value, and as no
\* positional argument.
C17_NamedArgument ==
    \A key \in ArgumentKeys, v \in ArgumentValues :
        (Tokenized /\ text = NamedText(key, v[1])) =>
            tokenized.result =
                Returned(<<ExecutableCommand(
                    Command("cmd", <<>>,
                            <<[key |-> JoinChars(key, 1, Len(key) + 1),
                               value |-> v[2]]>>))>>)

(***************************************************************************)
(* C18                                                                     *)
(***************************************************************************)
\* C18: a colon is a character of command names and not of argument keys,
\* and (server1:deploy env:prod) is one bare command named server1:deploy
\* with no positional argument and the one named argument env = prod.
C18_NamespacedName ==
    (Tokenized /\ text = NamespacedText) =>
        /\ ":" \in CommandNameChars \ IdentifierChars
        /\ tokenized.result =
              Returned(<<ExecutableCommand(
                  Command("server1:deploy", <<>>,
                          <<[key |-> "env", value |-> Literal("prod")]>>))>>)

C18_Witness ==
    /\ Tokenized
    /\ text = NamespacedText
    /\ ~tokenized.result.threw
    /\ Len(tokenized.result.statements) = 1

(***************************************************************************)
(* C19                                                                     *)
(***************************************************************************)
\* What the items between the quotes stand for: a character for itself, an
\* escape for the character after the backslash.
RECURSIVE Decoded(_)
Decoded(items) ==
    IF Len(items) = 0 THEN ""
    ELSE Head(items)[Len(Head(items))] \o Decoded(Tail(items))

\* C19: (cmd "<items>") is one bare command with no named argument and one
\* positional argument, the literal of the characters between the quotes,
\* each character other than the quote and the backslash standing for
\* itself and each escape for the character it escapes.
C19_QuotedString ==
    Tokenized =>
        \A items \in SeqsUpTo(QuotedItems, MaxQuoted) :
            text = QuotedText(items) =>
            tokenized.result =
                Returned(<<ExecutableCommand(
                    Command("cmd", <<Literal(Decoded(items))>>, <<>>))>>)

\* The quoted string of a character and the escape of the letter n.
C19_Witness ==
    /\ Tokenized
    /\ text = QuotedText(<<<<"x">>, <<"\\", "n">>>>)
    /\ ~tokenized.result.threw
    /\ tokenized.result.statements[1].command.positionalArgs = <<Literal("xn")>>

CompletedVariables(r) ==
    {statements[r][j].variableName : j \in DOMAIN returned[r]}

\* C21: at every point of a run the keys of its binding context are the
\* variables its completed assignments name; the completion of a bare
\* command leaves the context as it is; and a run that completes after
\* executing statements returns this context.
C21_KeySetIsAssigned ==
    [][\A r \in AllRuns :
          /\ Keys(globalContext[r]) = CompletedVariables(r)
          /\ Keys(globalContext'[r]) = CompletedVariables(r)'
          /\ (pc[r] = "awaitAction" /\ statements[r][idx[r]].type = "command") =>
                globalContext'[r] = globalContext[r]
          /\ (pc'[r] = "completed" /\ statements'[r] # <<>>) =>
                outcome'[r] = Resolved(globalContext'[r])]_vars

(***************************************************************************)
(* C22                                                                     *)
(***************************************************************************)
\* stmts, each command without its arguments.
RECURSIVE WithoutArguments(_)
WithoutArguments(stmts) ==
    IF Len(stmts) = 0 THEN <<>>
    ELSE <<[Head(stmts) EXCEPT !.command = Command(@.name, <<>>, <<>>)]>>
         \o WithoutArguments(Tail(stmts))

\* C22: the validation a call of run makes leaves the registry and the
\* statements tokenize returned as they are, invokes no action (the one
\* invocation the call can make is executeStatements' of the first
\* statement, and only when there is no error), and records the errors the
\* statements give without their arguments: none for a variable reference.
C22_ValidationIsPureScan ==
    [][\A r \in AllRuns :
          (pc[r] = "idle" /\ pc'[r] # "idle") =>
              /\ commandMap' = commandMap
              /\ \A parsed \in {tokenize(parser, input'[r])} :
                    statements'[r] =
                        IF parsed.threw THEN <<>> ELSE parsed.statements
              /\ errors'[r] =
                     validateStatements(WithoutArguments(statements'[r]),
                                        commandMap)
              /\ errors'[r] # <<>> => calls'[r] = <<>>
              /\ \A k \in 1..Len(calls'[r]) : calls'[r][k].index = 1
              /\ Len(calls'[r]) <= 1]_vars

\* A reference to a variable nothing assigns has passed validation, use
\* being registered, and has failed when executed.
C22_Witness ==
    /\ Len(statements["r1"]) = 1
    /\ RefsOf(statements["r1"][1].command) = {"x"}
    /\ errors["r1"] = <<>>
    /\ pc["r1"] = "failed"
    /\ outcome["r1"] = Rejected(UndefinedVariable("x"))

(***************************************************************************)
(* C23                                                                     *)
(***************************************************************************)
Ended(r) == pc[r] \in {"completed", "failed"}

\* A run ends completed only with no validation error and every statement
\* invoked once, in order.
CompletedOnlyIfAllInvoked(r) ==
    pc[r] = "completed" =>
        /\ errors[r] = <<>>
        /\ Len(calls[r]) = Len(statements[r])
        /\ \A k \in 1..Len(calls[r]) : calls[r][k].index = k

\* A run whose text has parsed fails only with the validation error, with
\* an undefined variable, or with the error of an action.
FailedOnlyFromKnownCauses(r) ==
    (pc[r] = "failed" /\ ~ParseFails(r)) =>
        \/ errors[r] # <<>> /\ outcome[r] = Rejected(ValidationError(errors[r]))
        \/ \E i \in 1..Len(statements[r]) :
              \E v \in RefsOf(statements[r][i].command) :
                  outcome[r] = Rejected(UndefinedVariable(v))
        \/ ActionFailed(r) /\ outcome[r] = Rejected(actionError[r])

\* The run ends, once called.
C23_Terminates ==
    \A r \in SoloRuns : (pc[r] # "idle") ~> Ended(r)

\* C23: a run whose invoked actions all complete or fail ends, completed or
\* failed; completed only if validation passed and every statement's action
\* was invoked exactly once; failed only from a validation error, an
\* undefined variable or an action error.
C23_EndsCompletedOrFailed ==
    /\ C23_Terminates
    /\ [](\A r \in SoloRuns :
             CompletedOnlyIfAllInvoked(r) /\ FailedOnlyFromKnownCauses(r))

(***************************************************************************)
(* C24                                                                     *)
(***************************************************************************)
\* withDir of call r is between its chdir and its finally block.
InWithDir(r) == pc[r] \in {"awaitAction", "withDir"}

\* C24: a call of withDir records the directory the process is in and
\* switches to the one it is given; the process is there while the callback
\* runs; when the callback has returned or thrown, the finally block puts
\* the process back where it was at the call; and what the callback threw
\* is what the caller gets.
C24_DirectoryRestored ==
    [][\A r \in SoloRuns :
          /\ (~InWithDir(r) /\ InWithDir(r)') =>
                cwd' = workingDir'[r] /\ originalDir'[r] = cwd
          /\ InWithDir(r) => cwd = workingDir[r]
          /\ (InWithDir(r) /\ ~InWithDir(r)') => cwd' = originalDir[r]
          /\ ~InWithDir(r) => cwd = "/work"
          /\ ~InWithDir(r)' => cwd' = "/work"
          /\ (pc[r] = "withDir" /\ thrown[r] # NoError) =>
                pc'[r] = "failed" /\ outcome'[r] = Rejected(thrown[r])
          /\ (pc[r] = "withDir" /\ thrown[r] = NoError) =>
                pc'[r] = "afterWithDir"
          /\ (pc[r] = "awaitAction" /\ ActionFailed(r)') =>
                thrown'[r] = actionError'[r]]_vars

\* The callback of a withDir into /a has thrown and the finally block has
\* put the process back.
C24_Witness ==
    /\ pc["r1"] = "failed"
    /\ ActionFailed("r1")
    /\ workingDir["r1"] = "/a"
    /\ originalDir["r1"] = "/work"
    /\ cwd = "/work"

(***************************************************************************)
(* C27                                                                     *)
(***************************************************************************)
\* C27: when two calls of executeStatements with different working
\* directories have both ended, the process is in the directory it was in
\* before the first of them started.
C27_DirectoryAfterBoth ==
    (/\ \A r \in AllRuns : Ended(r)
     /\ workingDir["r1"] # workingDir["r2"]) => cwd = "/work"

(***************************************************************************)
(* C25                                                                     *)
(***************************************************************************)
\* The statements of call r that command name executes.
StatementsOf(r, name) ==
    {i \in 1..Len(statements[r]) : statements[r][i].command.name = name}

\* C25: after a successful call the durations have one entry for each
\* command name among the statements, holding the duration of the last
\* statement of that name, and no other entry.
C25_TimesByCommandName ==
    \A r \in SoloRuns :
        pc[r] = "completed" =>
            /\ Keys(executionTimes[r]) =
                   {statements[r][i].command.name : i \in 1..Len(statements[r])}
            /\ \A name \in Keys(executionTimes[r]) :
                   executionTimes[r].own[name] =
                       Duration(Max(StatementsOf(r, name)))
            /\ outcome[r].value.executionTimes = executionTimes[r]

(***************************************************************************)
(* C26                                                                     *)
(***************************************************************************)
IsPositional(argument) == argument.key = ""

\* The values of the positional arguments, in the order written.
RECURSIVE PositionalValues(_)
PositionalValues(arguments) ==
    IF Len(arguments) = 0 THEN <<>>
    ELSE (IF IsPositional(Head(arguments)) THEN <<Head(arguments).value>>
          ELSE <<>>) \o PositionalValues(Tail(arguments))

\* The arguments written with the key of the k-th argument.
SameKey(arguments, k) ==
    {j \in 1..Len(arguments) : arguments[j].key = arguments[k].key}

\* C26: when a key is written more than once in a command, the command has
\* a single entry for it, which holds the value written last; and the
\* positional arguments are the values written without a key, in the order
\* written, whatever named arguments stand between them.
C26_LastNamedWins ==
    Tokenized =>
        \A as \in SeqsUpTo(MixedArguments, MaxMixed) :
            text = MixedText(as) =>
                /\ ~tokenized.result.threw
                /\ Len(tokenized.result.statements) = 1
                /\ LET command == tokenized.result.statements[1].command IN
                   /\ command.positionalArgs = PositionalValues(as)
                   /\ \A k \in 1..Len(as) :
                         (~IsPositional(as[k])
                              /\ Cardinality(SameKey(as, k)) > 1) =>
                             \E n \in 1..Len(command.namedArgs) :
                                 /\ command.namedArgs[n] =
                                        [key |-> as[k].key,
                                         value |-> as[Max(SameKey(as, k))].value]
                                 /\ \A m \in 1..Len(command.namedArgs) :
                                        command.namedArgs[m].key = as[k].key
                                            => m = n

(***************************************************************************)
(* C28                                                                     *)
(***************************************************************************)
\* args is empty or has --help or -h among its elements.
AsksForHelp(args) == args = <<>> \/ Range(args) \cap HelpFlags # {}

\* C28: a call of run with no argument, or with --help or -h anywhere among
\* its arguments, returns an empty map of bindings at once: it joins and
\* parses nothing, leaves the parser as it is, has no statement, invokes no
\* action and stays out of withDir; and nothing is invoked afterwards.
C28_HelpOnly ==
    [][\A r \in AllRuns :
          /\ (pc[r] = "idle" /\ pc'[r] # "idle" /\ AsksForHelp(argv'[r])) =>
                /\ pc'[r] = "completed"
                /\ outcome'[r] = Resolved(EmptyRecord)
                /\ parser' = parser
                /\ input'[r] = <<>>
                /\ statements'[r] = <<>>
                /\ calls'[r] = <<>>
                /\ settled'[r] = settled[r]
                /\ cwd' = cwd
          /\ (pc[r] = "completed" /\ AsksForHelp(argv[r])) =>
                /\ pc'[r] = "completed"
                /\ calls'[r] = <<>>
                /\ outcome'[r] = outcome[r]]_vars

\* run has been called with a runnable assignment and --help, get being
\* registered, and has returned.
C28_Witness ==
    /\ Registered("get")
    /\ argv["r1"] = <<<<"x", ":", "(", "g", "e", "t", " ", "k", ")">>,
                      <<"-", "-", "h", "e", "l", "p">>>>
    /\ pc["r1"] = "completed"
    /\ outcome["r1"] = Resolved(EmptyRecord)

====
